---- MODULE Spec2Model ----
(***************************************************************************)
(* Fireplace: a grid fire automaton over procedurally generated kindling.  *)
(*                                                                         *)
(* The repository holds several stand-alone variants of the same program   *)
(* (each file is a complete `package main`).  Two of them are modelled:    *)
(*   "blended" - src/unnamed/part_003 (capsule sticks, blended compositor, *)
(*               no ember step, tick counter, logCount)                    *)
(*   "embers"  - src/main.go (six fixed elliptic logs, clamped refuel row, *)
(*               ember step)                                               *)
(* A run executes one variant; `variant` is fixed by Init.                 *)
(*                                                                         *)
(* Lengths of the float geometry are kept as exact integers in fixed       *)
(* units: tenths of a cell for the capsule generator, fiftieths of a cell  *)
(* for the elliptic logs.  Go slices are functions over 0..len-1.          *)
(***************************************************************************)
EXTENDS Integers, Sequences, FiniteSets, TLC

VARIABLES variant, width, height, fireHeight, hearthLeft, hearthRight,
          fire, woodMap, logCount, tick, logs,
          pc, k, done, wr, frames, ignitions,
          ev, genSeed, audio, apc, rumbleState

vars == <<variant, width, height, fireHeight, hearthLeft, hearthRight,
          fire, woodMap, logCount, tick, logs, pc, k, done, wr, frames,
          ignitions, ev, genSeed, audio, apc, rumbleState>>

(* ---------------------------- bounds ----------------------------------- *)
MaxWidth == 4
MaxHeight == 2
MaxFrames == 2
MaxIgnitions == 1
MaxProbe == 3
MaxTick == 4
MaxGenWidth == 6
MaxGenHeight == 4

(* ------------------------- program constants --------------------------- *)
MaxHeat == 36
maxAttempts == 15
MaxLogs == 120
EmberRows == 20
RefuelJitter == 6

(* ------------------------------ helpers -------------------------------- *)
Abs(n) == IF n < 0 THEN 0 - n ELSE n
Min2(a, b) == IF a < b THEN a ELSE b
Max2(a, b) == IF a > b THEN a ELSE b
Slice(n) == [i \in 0..(n - 1) |-> 0]
LenOf(s) == Cardinality(DOMAIN s)

getLogHeightDefaultTop(wm, w, h, x) ==
    IF x < 0 \/ x >= w THEN 0
    ELSE LET owned == {y \in 0..(h - 1) : wm[y * w + x] # 0}
         IN IF owned = {} THEN h - 1
            ELSE h - 1 - (CHOOSE y \in owned : \A z \in owned : y <= z)

clampLowOnly(h) == IF h < 0 THEN 0 ELSE h

clamp(h) == IF h < 0 THEN 0 ELSE IF h > MaxHeat THEN MaxHeat ELSE h

(* for y := 0; y < height; y++: the first owned row y returns height-1-y *)
RECURSIVE ScanColumn(_, _, _, _, _)
ScanColumn(wm, w, h, x, y) ==
    IF y >= h THEN 0
    ELSE IF wm[y * w + x] # 0 THEN h - 1 - y
    ELSE ScanColumn(wm, w, h, x, y + 1)

getLogHeightBottomUp(wm, w, h, x) ==
    IF x < 0 \/ x >= w THEN 0
    ELSE LET owned == {y \in 0..(h - 1) : wm[y * w + x] # 0}
         IN IF owned = {} THEN 0
            ELSE h - 1 - (CHOOSE y \in owned : \A z \in owned : y >= z)

(* scan from the top row; the first owned row y gives height-1-y, else 0 *)
getLogHeightIn(wm, w, h, x) ==
    IF x < 0 \/ x >= w THEN 0 ELSE ScanColumn(wm, w, h, x, 0)

getLogHeight(x) == getLogHeightIn(woodMap, width, height, x)

(* ------------------- capsule generator (blended) ----------------------- *)
(* Lengths in tenths of a cell.  An angle is the pair <<5 cos, 5 sin>>:    *)
(* <<5, 0>> is angle 0 and <<4, 3>> / <<4, -3>> are +-36.87 degrees, inside *)
(* the sampled range (rand-0.5)*0.6*pi.                                    *)
aspect == 2

(* The random source is abstracted to a finite family of draw streams,     *)
(* one per seed: the j-th placement attempt of a generation reads entry    *)
(* j of the stream, the p-th pair reads the p-th offset.                   *)
DrawTable ==
    << [len |-> 100, ang |-> <<5, 0>>, r |-> 3, rise |-> 0],
       [len |-> 100, ang |-> <<4, 3>>, r |-> 5, rise |-> 0],
       [len |-> 100, ang |-> <<4, -3>>, r |-> 5, rise |-> 5],
       [len |-> 100, ang |-> <<4, 3>>, r |-> 3, rise |-> 5] >>
OffsetTable == <<0, 10>>
MaxSeed == 7
Seeds == 0..MaxSeed

StreamDraw(seed, j) ==
    DrawTable[(((seed % Len(DrawTable)) + j * (seed \div Len(DrawTable))) % Len(DrawTable)) + 1]
StreamOffset(seed, p) == OffsetTable[((seed + p) % Len(OffsetTable)) + 1]

numLogsOf(w) ==
    LET n == Min2(w, MaxLogs) IN IF n % 2 # 0 THEN n + 1 ELSE n

centerX10(hl, hr) == 5 * (hl + hr)
bottomY10(h) == 10 * (h - 1)

(* r = baseRadius*(0.6 + 0.8u), baseRadius = max(height/90, 0.4), u in [0,1) *)
RadiusOK(r, h) == 6 * Max2(h, 36) <= 90 * r /\ 90 * r < 14 * Max2(h, 36)
(* length = 7.0 + 12u *)
LengthOK(len) == 70 <= len /\ len < 190
(* midY = limitY - u*hRange, hRange = min(maxH, limitY),                   *)
(* maxH = (height/3)*exp(-0.8 d^2); exp is exact only at d = 0, so a       *)
(* positive rise is drawn only for a zero offset.                          *)
RiseOK(rise, off, r, h) ==
    \/ rise = 0
    \/ /\ off = 0
       /\ rise > 0
       /\ 3 * rise < 10 * h
       /\ rise < bottomY10(h) - r - 5

(* the draw of attempt j; a rise the size does not admit is the draw u = 0 *)
AttemptDraw(seed, j, off, h) ==
    LET d == StreamDraw(seed, j)
    IN IF RiseOK(d.rise, off, d.r, h) THEN d ELSE [d EXCEPT !.rise = 0]

(* one attempt of the placement loop: the sampled candidate *)
Candidate(off, dir, d, w, h) ==
    LET limitY == bottomY10(h) - d.r - 5
    IN [midX |-> centerX10(0, w) + dir * off, midY |-> limitY - d.rise,
        ang |-> d.ang, length |-> d.len, r |-> d.r,
        depth |-> limitY - d.rise, id |-> 0,
        x1 |-> 0, y1 |-> 0, x2 |-> 0, y2 |-> 0]

isNear(c, T) ==
    \E j \in 1..Len(T) :
        LET dx == c.midX - T[j].midX
            dy == c.midY - T[j].midY
        IN 4 * (dx * dx + dy * dy) < 9 * c.length * c.length

(* TRUE when the attempt leaves the placement loop with candidate c *)
LeavesLoop(c, T, attempt, w) ==
    IF Len(T) < 4
    THEN Abs(c.midX - centerX10(0, w)) < 50 \/ attempt = maxAttempts - 1
    ELSE isNear(c, T) \/ attempt = maxAttempts - 1

(* for attempt := 0 .. maxAttempts-1: the candidate the loop is left with *)
RECURSIVE Place(_, _, _, _, _, _, _)
Place(attempt, T, seed, off, dir, w, h) ==
    LET c == Candidate(off, dir, AttemptDraw(seed, Len(T) + attempt, off, h), w, h)
    IN IF LeavesLoop(c, T, attempt, w) THEN c
       ELSE Place(attempt + 1, T, seed, off, dir, w, h)

WithId(c, T) == [c EXCEPT !.id = Len(T) + 1]

(* both sides of one pair: side 0 with dir = -1, then side 1 with dir = 1 *)
AfterPair(T, seed, i, w, h) ==
    LET off == StreamOffset(seed, i \div 2)
        T1 == Append(T, WithId(Place(0, T, seed, off, -1, w, h), T))
    IN Append(T1, WithId(Place(0, T1, seed, off, 1, w, h), T1))

RECURSIVE PlacePairs(_, _, _, _, _)
PlacePairs(i, T, seed, w, h) ==
    IF i >= numLogsOf(w) THEN T
    ELSE PlacePairs(i + 2, AfterPair(T, seed, i, w, h), seed, w, h)

(* step 2: flatten unsupported sticks, then compute the end points *)
Underneath(T, i) ==
    \E j \in 1..Len(T) :
        /\ j # i
        /\ T[j].midY > T[i].midY + 5
        /\ 3 * Abs(T[j].midX - T[i].midX) < T[i].length

AdjustOne(T, i, w, h) ==
    LET l0 == T[i]
        l1 == IF Underneath(T, i) THEN l0
              ELSE [l0 EXCEPT !.ang = <<5, 0>>,
                              !.midY = IF l0.midY > bottomY10(h) - 50
                                       THEN bottomY10(h) - l0.r - 2
                                       ELSE l0.midY]
        dx == (l1.ang[1] * l1.length) \div 10
        dy == (l1.ang[2] * l1.length) \div (10 * aspect)
        mx0 == IF l1.midX - Abs(dx) - l1.r < 0 THEN Abs(dx) + l1.r ELSE l1.midX
        mx == IF mx0 + Abs(dx) + l1.r > 10 * (w - 1)
              THEN 10 * (w - 1) - Abs(dx) - l1.r ELSE mx0
    IN [T EXCEPT ![i] = [l1 EXCEPT !.x1 = mx - dx, !.y1 = l1.midY - dy,
                                   !.x2 = mx + dx, !.y2 = l1.midY + dy]]

RECURSIVE AdjustFrom(_, _, _, _)
AdjustFrom(i, T, w, h) ==
    IF i > Len(T) THEN T ELSE AdjustFrom(i + 1, AdjustOne(T, i, w, h), w, h)

(* sort.Slice on at most 12 elements is an insertion sort: an element is   *)
(* moved left past every element whose depth is strictly larger.           *)
InsertByDepth(S, e) ==
    LET p == Cardinality({j \in 1..Len(S) : ~(e.depth < S[j].depth)})
    IN SubSeq(S, 1, p) \o <<e>> \o SubSeq(S, p + 1, Len(S))

RECURSIVE SortFrom(_, _, _)
SortFrom(i, S, T) ==
    IF i > Len(T) THEN S ELSE SortFrom(i + 1, InsertByDepth(S, T[i]), T)

SortByDepthSkipped(T) == T

SortByDepth(T) == SortFrom(1, <<>>, T)

AssignIdsOffByOne(T) == [i \in 1..Len(T) |-> [T[i] EXCEPT !.id = i + 1]]

(* tempLogs[i].id = i + 1 over the 0-based index *)
AssignIds(T) == [i \in 1..Len(T) |-> [T[i] EXCEPT !.id = i]]

(* squared distance test of the rasterizer; every coordinate is doubled on *)
(* the vertical axis.  With t = dot/lenSq inside [0,1] the squared         *)
(* distance to the closest point is |ap|^2 - dot^2/lenSq.                  *)
CapsuleHitStrict(l, x, y) ==
    LET px == 10 * x
        py == 10 * y * aspect
        ax == l.x1
        ay == l.y1 * aspect
        bx == l.x2
        by == l.y2 * aspect
        abx == bx - ax
        aby == by - ay
        apx == px - ax
        apy == py - ay
        lenSq == abx * abx + aby * aby
        dot == apx * abx + apy * aby
        rr == (l.r * aspect) * (l.r * aspect)
    IN IF lenSq = 0 THEN FALSE
       ELSE IF dot < 0 THEN apx * apx + apy * apy < rr
       ELSE IF dot > lenSq
            THEN (px - bx) * (px - bx) + (py - by) * (py - by) < rr
       ELSE (apx * apx + apy * apy) * lenSq - dot * dot < rr * lenSq

CapsuleHit(l, x, y) ==
    LET px == 10 * x
        py == 10 * y * aspect
        ax == l.x1
        ay == l.y1 * aspect
        bx == l.x2
        by == l.y2 * aspect
        abx == bx - ax
        aby == by - ay
        apx == px - ax
        apy == py - ay
        lenSq == abx * abx + aby * aby
        dot == apx * abx + apy * aby
        rr == (l.r * aspect) * (l.r * aspect)
    IN IF lenSq = 0 THEN FALSE
       ELSE IF dot < 0 THEN apx * apx + apy * apy <= rr
       ELSE IF dot > lenSq
            THEN (px - bx) * (px - bx) + (py - by) * (py - by) <= rr
       ELSE (apx * apx + apy * apy) * lenSq - dot * dot <= rr * lenSq

ScanCapsulesForward(T, i, x, y) ==
    LET hits == {j \in 1..i : CapsuleHit(T[j], x, y)}
    IN IF hits = {} THEN 0
       ELSE T[CHOOSE j \in hits : \A z \in hits : j <= z].id

(* reverse scan i = len-1 .. 0, first hit wins *)
RECURSIVE ScanCapsules(_, _, _, _)
ScanCapsules(T, i, x, y) ==
    IF i < 1 THEN 0
    ELSE IF CapsuleHit(T[i], x, y) THEN T[i].id
    ELSE ScanCapsules(T, i - 1, x, y)

RasterCapsules(T, w, h) ==
    [c \in 0..(w * h - 1) |-> ScanCapsules(T, Len(T), c % w, c \div w)]

(* the list of capsules at the end of generateLogs *)
generateLogsBlended(seed, w, h) ==
    AssignIds(SortByDepth(AdjustFrom(1, PlacePairs(0, <<>>, seed, w, h), w, h)))

(* ------------------- elliptic logs (embers) ---------------------------- *)
(* Lengths in fiftieths of a cell; logRadius = max(height/8, 2.0), exact   *)
(* here for height < 16 and for multiples of 4.                            *)
logRadius50(h) == IF h < 16 THEN 100 ELSE (50 * h) \div 8

generateLogsEmbers(hl, hr, h) ==
    LET R == logRadius50(h)
        cX == 25 * (hl + hr)
        bY == 50 * (h - 1)
        spacing == (R * 198) \div 100
    IN << [x |-> cX, y |-> bY - (R * 8) \div 10, r |-> R, id |-> 1],
          [x |-> cX - spacing, y |-> bY - (R * 6) \div 10, r |-> R, id |-> 2],
          [x |-> cX + spacing, y |-> bY - (R * 6) \div 10, r |-> R, id |-> 3],
          [x |-> cX - spacing \div 2, y |-> bY - (R * 15) \div 10,
           r |-> (R * 9) \div 10, id |-> 4],
          [x |-> cX + spacing \div 2, y |-> bY - (R * 15) \div 10,
           r |-> (R * 9) \div 10, id |-> 5],
          [x |-> cX, y |-> bY - (R * 23) \div 10, r |-> (R * 8) \div 10, id |-> 6] >>

(* (dx/(2.2 r))^2 + (dy/r)^2 <= 1 *)
EllipseHit(l, x, y) ==
    LET dx == 50 * x - l.x
        dy == 50 * y - l.y
    IN 25 * dx * dx + 121 * dy * dy <= 121 * l.r * l.r

(* forward scan without break: the last covering log overwrites the cell *)
RECURSIVE PaintEllipses(_, _, _, _, _)
PaintEllipses(T, i, cur, x, y) ==
    IF i > Len(T) THEN cur
    ELSE PaintEllipses(T, i + 1, IF EllipseHit(T[i], x, y) THEN T[i].id ELSE cur, x, y)

RasterEllipses(T, w, h) ==
    [c \in 0..(w * h - 1) |-> PaintEllipses(T, 1, 0, c % w, c \div w)]

(* ------------------------------ resize --------------------------------- *)
Variants == {"blended", "embers"}
Sizes == (0..MaxWidth) \X (0..MaxHeight)

hearthOf(v, w) ==
    IF v = "blended" THEN [left |-> 0, right |-> w]
    ELSE LET hearthWidth == (9 * w) \div 10
             left == (w - hearthWidth) \div 2
         IN [left |-> left, right |-> left + hearthWidth]

initFireGuardColumn(w, fh) == Slice((w + 1) * fh)

(* fire = make([]int, width*fireHeight) *)
initFire(w, fh) == Slice(w * fh)

generateLogs(v, seed, w, h) ==
    IF v = "blended" THEN generateLogsBlended(seed, w, h)
    ELSE generateLogsEmbers(hearthOf(v, w).left, hearthOf(v, w).right, h)

Raster(v, T, w, h) ==
    IF v = "blended" THEN RasterCapsules(T, w, h) ELSE RasterEllipses(T, w, h)

resizeSingleHeight(v, w, h, T) ==
    [width |-> w, height |-> h,
     hearthLeft |-> hearthOf(v, w).left, hearthRight |-> hearthOf(v, w).right,
     fireHeight |-> h * 2,
     fire |-> initFire(w, h),
     woodMap |-> Raster(v, T, w, h),
     logCount |-> IF v = "blended" THEN Len(T) ELSE 0,
     logs |-> T]

(* the globals after resize() for a reported size and a generated list T *)
resize(v, w, h, T) ==
    [width |-> w, height |-> h,
     hearthLeft |-> hearthOf(v, w).left, hearthRight |-> hearthOf(v, w).right,
     fireHeight |-> h * 2,
     fire |-> initFire(w, h * 2),
     woodMap |-> Raster(v, T, w, h),
     logCount |-> IF v = "blended" THEN Len(T) ELSE 0,
     logs |-> T]

(* The global random source (math/rand's top-level functions) is shared by *)
(* every goroutine.  A generation is identified by the state the source is *)
(* in when generateLogs begins; generateLogs of src/main.go draws nothing, *)
(* so one state stands for all there.                                      *)
SourceStates(v) == IF v = "blended" THEN Seeds ELSE {0}

(* The draw streams a generation started in source state s can read: its   *)
(* own when no other goroutine draws, a shifted one when the audio         *)
(* goroutines draw between two of its draws.                               *)
StreamsSeen(s, a) == IF a THEN {s, (s + 1) % (MaxSeed + 1)} ELSE {s}

(* the outcomes of resize() reading stream s: one per reported size *)
ResizeOutcomes(v, s) ==
    {resize(v, sz[1], sz[2], generateLogs(v, s, sz[1], sz[2])) : sz \in Sizes}

ResizeTable == [v \in Variants |-> [s \in Seeds |-> ResizeOutcomes(v, s)]]

(* main() up to the event loop: resize() has run once, before any other   *)
(* goroutine is started; the poller goroutine holds no event yet          *)
Boot ==
    /\ genSeed \in SourceStates(variant)
    /\ \E g \in ResizeTable[variant][genSeed] :
          /\ width = g.width
          /\ height = g.height
          /\ hearthLeft = g.hearthLeft
          /\ hearthRight = g.hearthRight
          /\ fireHeight = g.fireHeight
          /\ fire = g.fire
          /\ woodMap = g.woodMap
          /\ logCount = g.logCount
          /\ logs = g.logs
    /\ tick = 0
    /\ pc = "select"
    /\ k = 0
    /\ done = <<"resize">>
    /\ wr = {}
    /\ frames = 0
    /\ ignitions = 0
    /\ ev = "none"
    /\ rumbleState = 0

(* a run without audio: src/main.go, or part_003 started with -silent *)
Init ==
    /\ variant \in Variants
    /\ audio = FALSE
    /\ apc = "off"
    /\ Boot

(* part_003 started without -silent, with an audio device: initAudio()    *)
(* succeeded and audioLoop and rumbleLoop run beside the event loop       *)
InitAudio ==
    /\ variant = "blended"
    /\ audio = TRUE
    /\ apc = "roll"
    /\ Boot

(* go func() { for { events <- screen.PollEvent() } }(): PollEvent returns *)
(* and the goroutine blocks on the unbuffered channel holding the event    *)
Poll ==
    /\ ev = "none"
    /\ pc \notin {"exited", "panic"}
    /\ ev' \in {"resize", "quit", "other"}
    /\ UNCHANGED <<variant, width, height, fireHeight, hearthLeft, hearthRight,
                   fire, woodMap, logCount, tick, logs, pc, k, done, wr, frames,
                   ignitions, genSeed, audio, apc, rumbleState>>

(* case *tcell.EventResize: screen.Sync(); resize() *)
EvResize ==
    /\ pc = "select"
    /\ ev = "resize"
    /\ ev' = "none"
    /\ \E s \in SourceStates(variant) :
          /\ genSeed' = s
          /\ \E s2 \in StreamsSeen(s, audio) : \E g \in ResizeTable[variant][s2] :
                /\ width' = g.width
                /\ height' = g.height
                /\ hearthLeft' = g.hearthLeft
                /\ hearthRight' = g.hearthRight
                /\ fireHeight' = g.fireHeight
                /\ fire' = g.fire
                /\ woodMap' = g.woodMap
                /\ logCount' = g.logCount
                /\ logs' = g.logs
    /\ wr' = {}
    /\ done' = <<"resize">>
    /\ UNCHANGED <<variant, tick, pc, k, frames, ignitions, audio, apc, rumbleState>>

(* case *tcell.EventKey with Escape or Ctrl-C: return *)
EvQuit ==
    /\ pc = "select"
    /\ ev = "quit"
    /\ ev' = "none"
    /\ pc' = "exited"
    /\ UNCHANGED <<variant, width, height, fireHeight, hearthLeft, hearthRight,
                   fire, woodMap, logCount, tick, logs, k, done, wr, frames,
                   ignitions, genSeed, audio, apc, rumbleState>>

(* any other key and any other event type: the switch falls through *)
EvOther ==
    /\ pc = "select"
    /\ ev = "other"
    /\ ev' = "none"
    /\ UNCHANGED <<variant, width, height, fireHeight, hearthLeft, hearthRight,
                   fire, woodMap, logCount, tick, logs, pc, k, done, wr, frames,
                   ignitions, genSeed, audio, apc, rumbleState>>

(* ------------------------------- tick ---------------------------------- *)
TickOrderCompositeEarly(v) ==
    IF v = "blended" THEN <<"propagate", "composite", "refuel", "present">>
    ELSE <<"propagate", "composite", "refuel", "ember", "present">>

(* order of the steps of one timer firing, after the heat update begins *)
TickOrder(v) ==
    IF v = "blended" THEN <<"propagate", "refuel", "composite", "present">>
    ELSE <<"propagate", "refuel", "ember", "composite", "present">>

PhaseAfter(v, p) ==
    LET o == TickOrder(v)
        i == CHOOSE j \in 1..Len(o) : o[j] = p
    IN IF i = Len(o) THEN "select" ELSE o[i + 1]

(* a run-time panic (index out of range, invalid argument) ends the program *)
Panic ==
    /\ pc' = "panic"
    /\ UNCHANGED <<variant, width, height, fireHeight, hearthLeft, hearthRight,
                   fire, woodMap, logCount, logs, k, wr, ignitions>>

(* case <-ticker.C: tick++ (blended), then updateFire() begins; the blended *)
(* update first clears the top row, fire[x] = 0 for x < width.             *)
Timer ==
    /\ pc = "select"
    /\ UNCHANGED <<ev, genSeed, audio, apc, rumbleState>>
    /\ frames < MaxFrames
    /\ frames' = frames + 1
    /\ tick' = IF variant = "blended" THEN tick + 1 ELSE tick
    /\ IF variant = "blended" /\ \E x \in 0..(width - 1) : x \notin DOMAIN fire
       THEN Panic /\ done' = <<>>
       ELSE /\ fire' = IF variant = "blended"
                       THEN [i \in DOMAIN fire |-> IF i < width THEN 0 ELSE fire[i]]
                       ELSE fire
            /\ wr' = IF variant = "blended" THEN 0..(width - 1) ELSE {}
            /\ pc' = "propagate"
            /\ k' = 0
            /\ done' = <<>>
            /\ UNCHANGED <<variant, width, height, fireHeight, hearthLeft,
                           hearthRight, woodMap, logCount, logs, ignitions>>

(* propagation visits x = 0..width-1 (outer) and y = 1..fireHeight-1 (inner) *)
NCells == width * Max2(fireHeight - 1, 0)
CellX(n) == n \div (fireHeight - 1)
CellYBottomUp(n) == (fireHeight - 1) - (n % (fireHeight - 1))
CellY(n) == 1 + (n % (fireHeight - 1))

(* int() of a NaN or infinite float is implementation-dependent: 0 or a    *)
(* saturated value, which after the clamp at 0 acts like any decay > 36.   *)
ImplDefinedTerm == {0, MaxHeat + 1}

decayHeightSign(x, y, r, lick, nan) ==
    r - (IF y < fireHeight \div 2 THEN 2 ELSE 0)

decay(x, y, r, lick, nan) ==
    IF variant = "blended"
    THEN LET base == 1 + (75 * (2 * x - width) * (2 * x - width)) \div (8 * width * width)
         IN IF y < fireHeight \div 2 THEN (IF lick THEN 0 ELSE base + 1) ELSE base
    ELSE IF variant = "wave"
    THEN LET center == (hearthLeft + hearthRight) \div 2
             span == hearthRight - hearthLeft
             term == IF span = 0 THEN nan
                     ELSE (48 * (x - center) * (x - center)) \div (span * span)
         IN r + term + (IF y < fireHeight \div 2
                        THEN (4 * (fireHeight - 2 * y)) \div fireHeight ELSE 0)
    ELSE LET center == (hearthLeft + hearthRight) \div 2
             span == hearthRight - hearthLeft
             term == IF span = 0 THEN nan ELSE (8 * Abs(x - center)) \div span
         IN r + term + (IF y < fireHeight \div 2 THEN 2 ELSE 0)

(* int(math.Sin(float64(tick)*0.15 + float64(y)*0.1) * 1.5): the angle in   *)
(* 1/10000 rad modulo 2*pi; |sin| >= 2/3 between asin(2/3) = 0.72973 and   *)
(* pi - asin(2/3) = 2.41186 (and the same arc shifted by pi); int()        *)
(* truncates towards 0                                                     *)
WaveShift(t, y) ==
    LET a == (1500 * t + 1000 * y) % 62832
    IN IF a >= 7298 /\ a <= 24118 THEN 1
       ELSE IF a >= 38714 /\ a <= 55534 THEN 0 - 1
       ELSE 0

ClampColumnLeftOnly(d) == IF d < 0 THEN 0 ELSE d

(* if dstX < 0 { dstX = 0 } else if dstX >= width { dstX = width - 1 } *)
ClampColumn(d) == IF d < 0 THEN 0 ELSE IF d >= width THEN width - 1 ELSE d

newHeatSignSlip(pixel, d) == Max2(pixel + d, 0)

(* newHeat := max(pixel-decay, 0) *)
newHeatOf(pixel, d) == Max2(pixel - d, 0)

ColdWriteNone(src) == {}

ColdWriteBelow(src) == IF src + width < LenOf(fire) THEN {src + width} ELSE {}

(* if pixel == 0 { if src-width >= 0 { fire[src-width] = 0 } } *)
ColdWrite(src) == IF src - width >= 0 THEN {src - width} ELSE {}

(* one iteration of the inner propagation loop *)
PropagateCell ==
    /\ pc = "propagate"
    /\ UNCHANGED <<ev, genSeed, audio, apc, rumbleState>>
    /\ k < NCells
    /\ LET x == CellX(k)
           y == CellY(k)
           src == y * width + x
       IN IF src \notin DOMAIN fire THEN Panic /\ UNCHANGED <<tick, frames, done>>
          ELSE /\ IF fire[src] = 0
                  THEN /\ fire' = [i \in DOMAIN fire |->
                                      IF i \in ColdWrite(src) THEN 0 ELSE fire[i]]
                       /\ wr' = ColdWrite(src)
                  ELSE \E drift \in {-1, 0, 1}, r \in {0, 1}, lick \in BOOLEAN,
                          nan \in ImplDefinedTerm :
                       LET dstX0 == x + drift
                                    + (IF variant = "wave" THEN WaveShift(tick, y) ELSE 0)
                           dstX == ClampColumn(dstX0)
                           dstIndex == (y - 1) * width + dstX
                           newHeat == newHeatOf(fire[src], decay(x, y, r, lick, nan))
                       IN IF dstIndex < 0
                          THEN fire' = fire /\ wr' = {}
                          ELSE /\ fire' = [fire EXCEPT ![dstIndex] = newHeat]
                               /\ wr' = {dstIndex}
               /\ k' = k + 1
               /\ UNCHANGED <<variant, width, height, fireHeight, hearthLeft,
                              hearthRight, woodMap, logCount, tick, logs, pc,
                              done, frames, ignitions>>

PropagateEnd ==
    /\ pc = "propagate"
    /\ UNCHANGED <<ev, genSeed, audio, apc, rumbleState>>
    /\ k = NCells
    /\ pc' = PhaseAfter(variant, "propagate")
    /\ k' = IF variant = "blended" THEN 0 ELSE hearthLeft
    /\ done' = Append(done, "propagate")
    /\ wr' = {}
    /\ UNCHANGED <<variant, width, height, fireHeight, hearthLeft, hearthRight,
                   fire, woodMap, logCount, tick, logs, frames, ignitions>>

(* ------------------------------ refuel --------------------------------- *)
FuelCols == {x \in 0..(width - 1) : getLogHeight(x) > 0}
minLX == IF FuelCols = {} THEN width
         ELSE CHOOSE x \in FuelCols : \A z \in FuelCols : x <= z
maxLX == IF FuelCols = {} THEN 0
         ELSE CHOOSE x \in FuelCols : \A z \in FuelCols : x >= z

(* dist > fireSpan/2 with fireSpan = 0.8*(maxLX-minLX), dist = |x - fireCenter| *)
OutsideSpan(x) == 5 * Abs(2 * x - (minLX + maxLX)) > 4 * (maxLX - minLX)

(* rand.Float64() > normDist*0.9; normDist is NaN (comparison false) when  *)
(* the span is 0 and lies in [0,1] otherwise                               *)
IgniteDraws(x) == IF maxLX - minLX = 0 THEN {FALSE} ELSE BOOLEAN

(* the rows hit by the three draws d = rand.Intn(h*3/4 + 1) *)
DepthDraws(h) ==
    {D \in SUBSET (0..((h * 3) \div 4)) : Cardinality(D) >= 1 /\ Cardinality(D) <= 3}

RefuelRolls == {0, 30, 31, 40, 41, 99}
CentreRolls == {2, 3}

refuelHeat(x, roll, croll) ==
    LET center == (hearthLeft + hearthRight) \div 2
        heat0 == IF roll > 40 THEN 0 ELSE IF roll > 30 THEN MaxHeat ELSE 20
    IN IF Abs(x - center) < 5 /\ croll > 2 THEN MaxHeat ELSE heat0

RefuelLimit == IF variant = "blended" THEN width ELSE hearthRight

HasFuelAlways(x) == TRUE

(* h := getLogHeight(x); if h <= 0 { continue } *)
HasFuel(x) == getLogHeight(x) > 0

(* the refuel draws that inject heat are capped by MaxIgnitions *)
HotAllowed == ignitions < MaxIgnitions

DepthRowLower(d) == (height - 1 - d) * 2 + 1

(* fireY := (height - 1 - d) * 2 *)
DepthRow(d) == (height - 1 - d) * 2

RefuelIndexTransposed(fireY, x) == x * width + fireY

(* idx := fireY*width + x *)
RefuelIndex(fireY, x) == fireY * width + x

RefuelBlended(x) ==
    LET h == getLogHeight(x)
    IN IF ~HasFuel(x) \/ OutsideSpan(x)
       THEN fire' = fire /\ wr' = {} /\ pc' = pc /\ ignitions' = ignitions
       ELSE \E ignite \in {b \in IgniteDraws(x) : b => HotAllowed} :
            \E D \in DepthDraws(h) :
              LET rows == {DepthRow(d) : d \in D}
                  hit == IF ignite
                         THEN {RefuelIndex(fy, x) : fy \in {r \in rows : r >= 0 /\ r < fireHeight}}
                         ELSE {}
              IN /\ ignitions' = IF ignite THEN ignitions + 1 ELSE ignitions
                 /\ IF \E i \in hit : i \notin DOMAIN fire
                    THEN fire' = fire /\ wr' = wr /\ pc' = "panic"
                    ELSE /\ fire' = [i \in DOMAIN fire |->
                                        IF i \in hit THEN MaxHeat ELSE fire[i]]
                         /\ wr' = hit
                         /\ pc' = pc

RefuelEmbers(x) ==
    LET h == getLogHeight(x)
    IN IF ~HasFuel(x)
       THEN fire' = fire /\ wr' = {} /\ pc' = pc /\ ignitions' = ignitions
       ELSE \E j \in 0..(RefuelJitter - 1), roll \in RefuelRolls, croll \in CentreRolls :
              LET fy0 == (height - 1 - h) * 2 + j
                  fy1 == IF fy0 >= fireHeight THEN fireHeight - 1 ELSE fy0
                  fireY == IF fy1 < 0 THEN 0 ELSE fy1
                  idx == RefuelIndex(fireY, x)
                  heat == refuelHeat(x, roll, croll)
              IN /\ pc' = pc
                 /\ IF idx >= 0 /\ idx < LenOf(fire) /\ heat > 0
                    THEN /\ HotAllowed
                         /\ fire' = [fire EXCEPT ![idx] = heat]
                         /\ wr' = {idx}
                         /\ ignitions' = ignitions + 1
                    ELSE fire' = fire /\ wr' = {} /\ ignitions' = ignitions

(* one iteration of the refuel loop over the columns *)
RefuelColumn ==
    /\ pc = "refuel"
    /\ UNCHANGED <<ev, genSeed, audio, apc, rumbleState>>
    /\ k < RefuelLimit
    /\ IF variant = "blended" THEN RefuelBlended(k) ELSE RefuelEmbers(k)
    /\ k' = k + 1
    /\ UNCHANGED <<variant, width, height, fireHeight, hearthLeft, hearthRight,
                   woodMap, logCount, tick, logs, done, frames>>

RefuelEnd ==
    /\ pc = "refuel"
    /\ UNCHANGED <<ev, genSeed, audio, apc, rumbleState>>
    /\ k >= RefuelLimit
    /\ pc' = PhaseAfter(variant, "refuel")
    /\ k' = 0
    /\ done' = Append(done, "refuel")
    /\ wr' = {}
    /\ UNCHANGED <<variant, width, height, fireHeight, hearthLeft, hearthRight,
                   fire, woodMap, logCount, tick, logs, frames, ignitions>>

(* ------------------------------ embers --------------------------------- *)
(* rand.Intn(100) < 8 fails *)
EmberSkip ==
    /\ pc = "ember"
    /\ UNCHANGED <<ev, genSeed, audio, apc, rumbleState>>
    /\ pc' = PhaseAfter(variant, "ember")
    /\ done' = Append(done, "ember")
    /\ wr' = {}
    /\ UNCHANGED <<variant, width, height, fireHeight, hearthLeft, hearthRight,
                   fire, woodMap, logCount, tick, logs, k, frames, ignitions>>

(* rand.Intn(100) < 8 holds; rand.Intn(n) panics for n <= 0 *)
EmberSpark ==
    /\ pc = "ember"
    /\ UNCHANGED <<ev, genSeed, audio, apc, rumbleState>>
    /\ IF hearthRight - hearthLeft <= 0
       THEN Panic /\ UNCHANGED <<tick, frames, done>>
       ELSE /\ HotAllowed
            /\ \E rx \in hearthLeft..(hearthRight - 1), j \in 0..(EmberRows - 1) :
                 LET ry == (height \div 2) * 2 + j
                     idx == ry * width + rx
                 IN IF idx >= 0 /\ idx < LenOf(fire)
                    THEN fire' = [fire EXCEPT ![idx] = MaxHeat] /\ wr' = {idx}
                    ELSE fire' = fire /\ wr' = {}
            /\ ignitions' = ignitions + 1
            /\ pc' = PhaseAfter(variant, "ember")
            /\ done' = Append(done, "ember")
            /\ UNCHANGED <<variant, width, height, fireHeight, hearthLeft,
                           hearthRight, woodMap, logCount, tick, logs, k, frames>>

(* ----------------------------- compositor ------------------------------ *)
Cells == {<<x, y>> : x \in 0..(width - 1), y \in 0..(height - 1)}

(* drawFire / drawFireBlended: cells behind the guard sy2*width+x >= len(fire) *)
(* are skipped, the others read both sub-rows                              *)
FireReadsDrawFire ==
    UNION {{(c[2] * 2) * width + c[1], (c[2] * 2 + 1) * width + c[1]} :
           c \in {d \in Cells : (d[2] * 2 + 1) * width + d[1] < LenOf(fire)}}

(* drawEnvironment of the blended variant reads the glow of owned cells *)
FireReadsDrawEnvironment ==
    IF variant # "blended" THEN {}
    ELSE UNION {{i \in {(c[2] * 2) * width + c[1], (c[2] * 2 + 1) * width + c[1]} :
                    i \div width < fireHeight} :
                c \in {d \in Cells : (d[2] * width + d[1]) \in DOMAIN woodMap
                                     /\ woodMap[d[2] * width + d[1]] >= 1
                                     /\ woodMap[d[2] * width + d[1]] <= logCount}}

WoodReads == {c[2] * width + c[1] : c \in Cells}

CompositeOK ==
    /\ WoodReads \subseteq DOMAIN woodMap
    /\ FireReadsDrawFire \cup FireReadsDrawEnvironment \subseteq DOMAIN fire

(* colors[clamp(heat1)], colors[clamp(heat2)]: the palette indices used    *)
(* by drawFire / drawFireBlended; the blended compositor skips a cell      *)
(* whose two heats are both below 4                                        *)
PaletteIndices ==
    UNION {{clamp(fire[(c[2] * 2) * width + c[1]]),
            clamp(fire[(c[2] * 2 + 1) * width + c[1]])} :
           c \in {d \in Cells :
                    /\ (d[2] * 2 + 1) * width + d[1] < LenOf(fire)
                    /\ \/ variant # "blended"
                       \/ fire[(d[2] * 2) * width + d[1]] >= 4
                       \/ fire[(d[2] * 2 + 1) * width + d[1]] >= 4}}

CompositeClearsField ==
    /\ pc = "composite"
    /\ UNCHANGED <<ev, genSeed, audio, apc, rumbleState>>
    /\ pc' = PhaseAfter(variant, "composite")
    /\ done' = Append(done, "composite")
    /\ wr' = {}
    /\ fire' = Slice(LenOf(fire))
    /\ UNCHANGED <<variant, width, height, fireHeight, hearthLeft,
                   hearthRight, woodMap, logCount, tick, logs, k, frames, ignitions>>

Composite ==
    /\ pc = "composite"
    /\ UNCHANGED <<ev, genSeed, audio, apc, rumbleState>>
    /\ IF CompositeOK
       THEN /\ pc' = PhaseAfter(variant, "composite")
            /\ done' = Append(done, "composite")
            /\ wr' = {}
            /\ UNCHANGED <<variant, width, height, fireHeight, hearthLeft,
                           hearthRight, fire, woodMap, logCount, tick, logs, k, frames, ignitions>>
       ELSE Panic /\ UNCHANGED <<tick, frames, done>>

(* screen.Show() *)
Present ==
    /\ pc = "present"
    /\ UNCHANGED <<ev, genSeed, audio, apc, rumbleState>>
    /\ pc' = PhaseAfter(variant, "present")
    /\ done' = Append(done, "present")
    /\ UNCHANGED <<variant, width, height, fireHeight, hearthLeft, hearthRight,
                   fire, woodMap, logCount, tick, logs, k, wr, frames, ignitions>>

(* ------------------------------- audio --------------------------------- *)
(* The goroutines started by main() when audio is on.  They use audioCtx,  *)
(* rumbleState, the global random source and locals only.                  *)
Running == audio /\ pc \notin {"exited", "panic"}

(* audioLoop: R := rand.Intn(100000); R > 99000 or R < 10000 synthesises a *)
(* sound, anything else sleeps 50 ms                                       *)
AudioRoll ==
    /\ Running
    /\ apc = "roll"
    /\ apc' \in {"play", "sleep"}
    /\ UNCHANGED <<variant, width, height, fireHeight, hearthLeft, hearthRight,
                   fire, woodMap, logCount, tick, logs, pc, k, done, wr, frames,
                   ignitions, ev, genSeed, audio, rumbleState>>

(* playWoodCrack / playWhiteNoise: a local sample buffer is filled from    *)
(* random draws and handed to a new player                                 *)
AudioPlay ==
    /\ Running
    /\ apc = "play"
    /\ apc' = "roll"
    /\ UNCHANGED <<variant, width, height, fireHeight, hearthLeft, hearthRight,
                   fire, woodMap, logCount, tick, logs, pc, k, done, wr, frames,
                   ignitions, ev, genSeed, audio, rumbleState>>

(* time.Sleep(50 * time.Millisecond) returns *)
AudioSleep ==
    /\ Running
    /\ apc = "sleep"
    /\ apc' = "roll"
    /\ UNCHANGED <<variant, width, height, fireHeight, hearthLeft, hearthRight,
                   fire, woodMap, logCount, tick, logs, pc, k, done, wr, frames,
                   ignitions, ev, genSeed, audio, rumbleState>>

(* rumbleState after the samples of one Read: a random walk kept inside    *)
(* [-1.0, 1.0], here in whole units                                        *)
RumbleLevels == {0 - 1, 0, 1}

RumbleReadCountsTick ==
    /\ Running
    /\ rumbleState' \in RumbleLevels
    /\ tick' = tick + 1
    /\ UNCHANGED <<variant, width, height, fireHeight, hearthLeft, hearthRight,
                   fire, woodMap, logCount, logs, pc, k, done, wr, frames,
                   ignitions, ev, genSeed, audio, apc>>

(* RumbleReader.Read, called by the player created in rumbleLoop *)
RumbleRead ==
    /\ Running
    /\ rumbleState' \in RumbleLevels
    /\ UNCHANGED <<variant, width, height, fireHeight, hearthLeft, hearthRight,
                   fire, woodMap, logCount, tick, logs, pc, k, done, wr, frames,
                   ignitions, ev, genSeed, audio, apc>>

Next ==
    \/ Poll
    \/ EvResize
    \/ EvQuit
    \/ EvOther
    \/ Timer
    \/ PropagateCell
    \/ PropagateEnd
    \/ RefuelColumn
    \/ RefuelEnd
    \/ EmberSkip
    \/ EmberSpark
    \/ Composite
    \/ Present

Spec == Init /\ [][Next]_vars

(* part_003 with audio: the event loop of the blended variant beside the   *)
(* audio goroutines                                                        *)
NextAudio ==
    \/ Poll
    \/ EvResize
    \/ EvQuit
    \/ EvOther
    \/ Timer
    \/ PropagateCell
    \/ PropagateEnd
    \/ RefuelColumn
    \/ RefuelEnd
    \/ Composite
    \/ Present
    \/ AudioRoll
    \/ AudioPlay
    \/ AudioSleep
    \/ RumbleRead

AudioSpec == InitAudio /\ [][NextAudio]_vars

(* --------------------- the rasterizer on its own ----------------------- *)
(* a stick from (xa, ya) to (xb, yb) in cells, radius r in tenths *)
Capsule(xa, ya, xb, yb, r) ==
    [midX |-> 5 * (xa + xb), midY |-> 5 * (ya + yb), ang |-> <<5, 0>>,
     length |-> 10 * Abs(xb - xa), r |-> r, depth |-> 5 * (ya + yb), id |-> 1,
     x1 |-> 10 * xa, y1 |-> 10 * ya, x2 |-> 10 * xb, y2 |-> 10 * yb]

SampleCapsules ==
    {Capsule(1, ya, 3, yb, r) : ya \in 1..3, yb \in 1..3, r \in {5, 10}}

(* resize() on a 5x5 screen up to the rendering loop of generateLogs, with *)
(* one stick in the sorted list                                            *)
InitRaster ==
    /\ variant = "blended"
    /\ width = 5
    /\ height = 5
    /\ fireHeight = 10
    /\ hearthLeft = 0
    /\ hearthRight = 5
    /\ fire = initFire(5, 10)
    /\ woodMap = Slice(25)
    /\ \E c \in SampleCapsules : logs = <<c>>
    /\ logCount = 1
    /\ tick = 0
    /\ pc = "raster"
    /\ k = 0
    /\ done = <<>>
    /\ wr = {}
    /\ frames = 0
    /\ ignitions = 0
    /\ ev = "none"
    /\ genSeed = 0
    /\ audio = FALSE
    /\ apc = "off"
    /\ rumbleState = 0

(* one cell of the rendering loop (y outer, x inner): the reverse scan     *)
(* writes the id of the first stick that covers the cell                   *)
RasterCell ==
    /\ pc = "raster"
    /\ k < width * height
    /\ LET id == ScanCapsules(logs, Len(logs), k % width, k \div width)
       IN woodMap' = IF id # 0 THEN [woodMap EXCEPT ![k] = id] ELSE woodMap
    /\ k' = k + 1
    /\ UNCHANGED <<variant, width, height, fireHeight, hearthLeft, hearthRight,
                   fire, logCount, tick, logs, pc, done, wr, frames, ignitions,
                   ev, genSeed, audio, apc, rumbleState>>

(* generateLogs and resize() return to the event loop *)
RasterEnd ==
    /\ pc = "raster"
    /\ k = width * height
    /\ pc' = "select"
    /\ k' = 0
    /\ done' = <<"resize">>
    /\ UNCHANGED <<variant, width, height, fireHeight, hearthLeft, hearthRight,
                   fire, woodMap, logCount, tick, logs, wr, frames, ignitions,
                   ev, genSeed, audio, apc, rumbleState>>

NextRaster ==
    \/ RasterCell
    \/ RasterEnd

RasterSpec == InitRaster /\ [][NextRaster]_vars

(* the steps of one loop iteration once the timer case is taken *)
TickStep ==
    \/ PropagateCell
    \/ PropagateEnd
    \/ RefuelColumn
    \/ RefuelEnd
    \/ EmberSkip
    \/ EmberSpark
    \/ Composite
    \/ Present

(* The loop goroutine is never starved, so a started iteration is carried  *)
(* on (weak fairness).  select chooses uniformly at random among its ready *)
(* cases, so a receive that is ready at infinitely many visits of the      *)
(* select is taken (strong fairness of the receive).                       *)
LiveSpec ==
    /\ Spec
    /\ WF_vars(TickStep)
    /\ SF_vars(EvQuit)
    /\ SF_vars(EvResize)
    /\ SF_vars(EvOther)

TypeOK ==
    /\ pc \in {"select", "propagate", "refuel", "ember", "composite", "present",
               "exited", "panic", "raster"}
    /\ \A i \in DOMAIN fire : fire[i] \in Int

(* ============================ properties =============================== *)
AllZero(f) == \A i \in DOMAIN f : f[i] = 0
UpdateDone == pc \in {"select", "composite", "present", "exited"}
FullTick ==
    IF variant = "blended" THEN <<"propagate", "refuel", "composite", "present">>
    ELSE <<"propagate", "refuel", "ember", "composite", "present">>

(* C1: when a tick has completed its heat update, every cell of the heat   *)
(* field holds a value between 0 and 36, whatever the sizes and draws.     *)
C1_HeatInRange ==
    UpdateDone => \A i \in DOMAIN fire : fire[i] >= 0 /\ fire[i] <= 36

C1_Witness ==
    /\ pc = "select"
    /\ done = FullTick
    /\ \E i \in DOMAIN fire : fire[i] > 0 /\ fire[i] < 36

(* C2: a resize that reports width 0 or height 0 ends without panic and    *)
(* leaves both grids as zero-length arrays.                                *)
C2_ResizeZeroSafe ==
    (done = <<"resize">> /\ (width = 0 \/ height = 0)) =>
        /\ pc \in {"select", "exited"}
        /\ LenOf(fire) = width * 2 * height
        /\ LenOf(fire) = 0
        /\ LenOf(woodMap) = width * height
        /\ LenOf(woodMap) = 0

C2_Witness ==
    /\ done = <<"resize">>
    /\ pc = "select"
    /\ frames >= 1
    /\ width > 0
    /\ height = 0
    /\ LenOf(fire) = 0

(* C3: a tick on a degenerate grid (width <= 0 or height <= 0) is a no-op: *)
(* it never fails and the empty grids stay as they are.                    *)
C3_DegenerateTickNoOp ==
    (width <= 0 \/ height <= 0) =>
        /\ pc # "panic"
        /\ LenOf(fire) = 0
        /\ LenOf(woodMap) = 0

(* C4: every cell written by a refuel step lies in a column whose fuel     *)
(* height is positive.                                                     *)
C4_RefuelOnlyFuelColumns ==
    pc = "refuel" => \A i \in wr : getLogHeight(i % width) > 0

C4_Witness ==
    /\ pc = "refuel"
    /\ k >= 1
    /\ k - 1 >= hearthLeft
    /\ k - 1 < width
    /\ \E y \in 0..(height - 1) : woodMap[y * width + (k - 1)] # 0
    /\ getLogHeight(k - 1) = 0
    /\ ignitions < MaxIgnitions
    /\ wr = {}

(* C5: with an all-zero heat field, no ownership anywhere and no ember     *)
(* spark, every step leaves the heat field all zero.                       *)
C5_ZeroStable ==
    [][(AllZero(fire) /\ AllZero(woodMap) /\ ~(pc = "ember" /\ ignitions' # ignitions))
          => AllZero(fire')]_vars

C5_Witness ==
    /\ variant = "blended"
    /\ width = 4
    /\ height >= 2
    /\ AllZero(woodMap)
    /\ AllZero(fire)
    /\ ignitions = 0
    /\ frames >= 2
    /\ pc = "select"
    /\ done = FullTick

(* C6: after a generation of N capsules every ownership cell holds a value *)
(* in 0..N, and logCount is N.                                             *)
C6_OwnershipIdsInRange ==
    /\ \A i \in DOMAIN woodMap : woodMap[i] >= 0 /\ woodMap[i] <= Len(logs)
    /\ variant = "blended" => logCount = Len(logs)

C6_Witness ==
    /\ variant = "blended"
    /\ logCount >= 4
    /\ \E i \in DOMAIN woodMap : woodMap[i] = logCount
    /\ \E i \in DOMAIN woodMap : woodMap[i] = 0

(* C7: the capsule ids are exactly 1..N without duplicates, never 0, and   *)
(* a smaller id never has a larger depth.                                  *)
C7_IdsContiguousByDepth ==
    /\ {logs[i].id : i \in 1..Len(logs)} = 1..Len(logs)
    /\ \A i, j \in 1..Len(logs) : i # j => logs[i].id # logs[j].id
    /\ \A i \in 1..Len(logs) : logs[i].id # 0
    /\ variant = "blended" =>
          \A a, b \in 1..Len(logs) :
              logs[a].id < logs[b].id => logs[a].depth <= logs[b].depth

C7_Witness ==
    /\ variant = "blended"
    /\ Len(logs) >= 4
    /\ \E a, b \in 1..Len(logs) : logs[a].depth < logs[b].depth

SampleCapsule == [x1 |-> 0, y1 |-> 0, x2 |-> 100, y2 |-> 0, r |-> 20]
Covering(x, y) ==
    {i \in 1..Len(logs) :
        IF variant = "blended" THEN CapsuleHit(logs[i], x, y)
        ELSE EllipseHit(logs[i], x, y)}
(* C8: each ownership cell holds the largest id among the capsules that    *)
(* cover it and 0 when none does; the segment (0,0)-(10,0) of radius 2     *)
(* covers (5,0) and does not cover (5,10).                                 *)
C8_PaintersRule ==
    /\ \A c \in DOMAIN woodMap :
          LET cov == Covering(c % width, c \div width)
          IN IF cov = {} THEN woodMap[c] = 0
             ELSE /\ \E i \in cov : woodMap[c] = logs[i].id
                  /\ \A i \in cov : logs[i].id <= woodMap[c]
    /\ CapsuleHit(SampleCapsule, 5, 0)
    /\ ~CapsuleHit(SampleCapsule, 5, 10)

C8_Witness ==
    /\ variant = "blended"
    /\ \E c \in DOMAIN woodMap :
          /\ Cardinality(Covering(c % width, c \div width)) >= 2
          /\ \E i, j \in Covering(c % width, c \div width) : logs[i].id < logs[j].id
          /\ woodMap[c] > 1
    /\ \E c \in DOMAIN woodMap : woodMap[c] = 0

C9_StepsDone ==
    /\ pc = "propagate" => done = <<>>
    /\ pc = "refuel" => done = <<"propagate">>
    /\ pc = "ember" => done = <<"propagate", "refuel">>
    /\ pc = "composite" => done = IF variant = "blended"
                                  THEN <<"propagate", "refuel">>
                                  ELSE <<"propagate", "refuel", "ember">>
    /\ pc = "present" => done = SubSeq(FullTick, 1, Len(FullTick) - 1)
(* C9: in every tick propagation runs over the whole grid, then refuel,    *)
(* then the ember step where there is one, then compositing, then present; *)
(* the heat field is written only by the heat update.                      *)
C9_TickOrder ==
    /\ []C9_StepsDone
    /\ [][/\ (pc = "propagate" /\ pc' \notin {"propagate", "panic"})
                => (k = NCells /\ pc' = "refuel")
          /\ (pc = "refuel" /\ pc' \notin {"refuel", "panic"}) => k >= RefuelLimit
          /\ (pc \in {"composite", "present"}) => fire' = fire]_vars

C9_Witness ==
    /\ variant = "embers"
    /\ pc = "present"
    /\ done = <<"propagate", "refuel", "ember", "composite">>
    /\ \E i \in DOMAIN fire : fire[i] = 36
    /\ \E i \in DOMAIN fire : fire[i] > 0 /\ fire[i] < 36

C10_SizesAgree ==
    /\ fireHeight = 2 * height
    /\ LenOf(fire) = width * fireHeight
    /\ LenOf(woodMap) = width * height
(* C10: the grids always have the lengths of the current size, and they    *)
(* change only in a resize between ticks, which leaves the heat field all  *)
(* zero.                                                                   *)
C10_ResizeAtomic ==
    /\ []C10_SizesAgree
    /\ [][(width' # width \/ height' # height \/ woodMap' # woodMap
             \/ DOMAIN fire' # DOMAIN fire)
            => /\ pc = "select"
               /\ pc' = "select"
               /\ AllZero(fire')
               /\ LenOf(fire') = width' * 2 * height'
               /\ LenOf(woodMap') = width' * height']_vars

C10_Witness ==
    /\ done = <<"resize">>
    /\ pc = "select"
    /\ frames >= 1
    /\ width >= 2
    /\ height >= 2
    /\ AllZero(fire)
    /\ LenOf(fire) = width * 2 * height

(* the state of the simulation: the grids, their sizes and the counters *)
simState == <<fire, woodMap, width, height, fireHeight, logCount, tick>>

(* every pending quit is received unless a tick panics first *)
QuitReceivedUnlessPanic == (ev = "quit") ~> (pc \in {"exited", "panic"})

(* C11: whenever the poller holds a quit key event, the loop eventually    *)
(* receives it and terminates (under fair choice between the timer and the *)
(* event channel); once it is received no tick or resize is executed any   *)
(* more: nothing of the simulation state changes.                          *)
C11_QuitTerminates ==
    /\ (ev = "quit") ~> (pc = "exited")
    /\ [][pc = "exited" => (pc' = "exited" /\ simState' = simState)]_vars

(* C12: a step of an audio goroutine (audioLoop with its play helpers,    *)
(* rumbleLoop's RumbleReader.Read) leaves fire, woodMap, width, height,    *)
(* fireHeight, logCount and tick as they are, wherever the tick loop       *)
(* stands; so only steps of the loop goroutine change the two grids.       *)
C12_AudioLeavesSimulation ==
    [][(apc' # apc \/ rumbleState' # rumbleState) => simState' = simState]_vars

C12_Witness ==
    /\ audio
    /\ pc = "refuel"
    /\ rumbleState # 0
    /\ apc = "sleep"
    /\ \E i \in DOMAIN fire : fire[i] > 0

(* C13: geometry generation is reproducible: the capsule list in depth     *)
(* order and the ownership grid left by a generation are those determined  *)
(* by the state of the random source at its start (the generation seed)    *)
(* and the size, also while the audio goroutines run.                      *)
C13_SeedReproducible ==
    done = <<"resize">> =>
        /\ logs = generateLogs(variant, genSeed, width, height)
        /\ woodMap = Raster(variant, generateLogs(variant, genSeed, width, height),
                            width, height)

(* the stick of the scenario: from (1,2) to (3,2), radius 1 *)
ScenarioDone == pc = "select" /\ logs = <<Capsule(1, 2, 3, 2, 10)>>

(* C14 as stated: the stick from (1,2) to (3,2) with radius 1 on a 5x5     *)
(* grid marks row 2, columns 0..4, with id 1 and every other cell is 0.    *)
C14_RowTwoOnly ==
    ScenarioDone =>
        \A c \in DOMAIN woodMap : woodMap[c] = IF c \div 5 = 2 THEN 1 ELSE 0

(* C14: the stick from (1,2) to (3,2) with radius 1 on a 5x5 grid marks    *)
(* row 2, columns 0..4, and columns 1..3 of rows 1 and 3 (distance exactly *)
(* one radius on the doubled vertical axis) with id 1; every other cell    *)
(* is 0.                                                                   *)
C14_RowTwoAndTouchingRows ==
    ScenarioDone =>
        \A c \in DOMAIN woodMap :
            woodMap[c] = IF c \div 5 = 2 THEN 1
                         ELSE IF c \div 5 \in {1, 3} /\ c % 5 \in 1..3 THEN 1
                         ELSE 0

C14_Witness == ScenarioDone /\ woodMap[10] = 1 /\ woodMap[6] = 1 /\ woodMap[0] = 0

(* the rows of column x that hold a nonzero owner *)
OwnedRows(x) == {y \in 0..(height - 1) : woodMap[y * width + x] # 0}

FuelHeightValue(x) ==
    IF x < 0 \/ x >= width \/ OwnedRows(x) = {} THEN 0
    ELSE height - 1 - (CHOOSE y \in OwnedRows(x) : \A z \in OwnedRows(x) : y <= z)

(* C15 as stated: getLogHeight(x) is height-1-r for the smallest owned row *)
(* r of column x, 0 for a column without owned cell or outside the grid,   *)
(* and therefore always in [0, height-1].                                  *)
C15_FuelHeightInRows ==
    \A x \in (0 - 1)..width :
        /\ getLogHeight(x) = FuelHeightValue(x)
        /\ getLogHeight(x) \in 0..(height - 1)

(* C15: getLogHeight(x) is height-1-r for the smallest owned row r of      *)
(* column x and 0 for a column without owned cell or outside the grid; it  *)
(* is in [0, height-1] on a grid with at least one row and 0 on a grid     *)
(* without rows.                                                           *)
C15_FuelHeight ==
    \A x \in (0 - 1)..width :
        /\ getLogHeight(x) = FuelHeightValue(x)
        /\ getLogHeight(x) \in 0..Max2(height - 1, 0)

C15_Witness ==
    /\ pc = "refuel"
    /\ \E x \in 0..(width - 1) : getLogHeight(x) > 0 /\ Cardinality(OwnedRows(x)) >= 2

ProbeHeats == (0 - MaxProbe)..(MaxHeat + MaxProbe)

(* C16: clamp(h) is 0 for h < 0, 36 for h > 36 and h in between; clamp is  *)
(* idempotent; every palette index colors[clamp(heat)] the compositor      *)
(* uses is in 0..36.                                                       *)
C16_ClampPalette ==
    /\ \A h \in ProbeHeats :
          /\ h < 0 => clamp(h) = 0
          /\ h > 36 => clamp(h) = 36
          /\ (h >= 0 /\ h <= 36) => clamp(h) = h
          /\ clamp(clamp(h)) = clamp(h)
    /\ pc = "composite" => PaletteIndices \subseteq 0..36

C16_Witness ==
    /\ pc = "composite"
    /\ 36 \in PaletteIndices
    /\ 0 \in PaletteIndices

(* a step of the loop that runs resize() *)
ResizeStep == pc = "select" /\ ev = "resize" /\ ev' = "none"

(* C17: between two resizes the ownership grid is immutable: no step other *)
(* than a resize (no step of the heat update, of the compositor, no other  *)
(* event) writes a woodMap cell or changes width, height or logCount; the  *)
(* compositor and the present step never write the heat field.             *)
C17_OwnershipFrame ==
    [][/\ ~ResizeStep => /\ woodMap' = woodMap
                         /\ width' = width
                         /\ height' = height
                         /\ logCount' = logCount
       /\ pc \in {"composite", "present"} => fire' = fire]_vars

C17_Witness ==
    /\ pc = "present"
    /\ frames = 2
    /\ \E i \in DOMAIN fire : fire[i] > 0
    /\ \E c \in DOMAIN woodMap : woodMap[c] # 0

(* a step of the loop that takes case <-ticker.C *)
TimerStep == pc = "select" /\ pc' \in {"propagate", "panic"}

(* the counting part of the loop: a timer step adds 1 to tick and starts   *)
(* one update; nothing else changes tick; the loop is back at the select   *)
(* only after propagate, refuel, composite, present in this order; an      *)
(* event other than resize and quit changes no simulation state            *)
TickAccounting ==
    [][/\ (variant = "blended" /\ TimerStep) => (tick' = tick + 1 /\ done' = <<>>)
       /\ tick' # tick => TimerStep
       /\ tick' >= tick
       /\ (pc = "present" /\ pc' = "select") => done' = FullTick
       /\ (ev = "other" /\ ev' = "none") => simState' = simState]_vars

(* C18: each timer firing received by the loop causes one heat update      *)
(* followed by one composite and one present and adds exactly 1 to tick;   *)
(* tick never decreases and no event changes it; an event other than       *)
(* resize and quit changes no simulation state.                            *)
C18_TimerFiring ==
    /\ TickAccounting
    /\ (variant = "blended" /\ done = <<>>) ~> (pc = "select" /\ done = FullTick)

(* one iteration of the propagation loop, from source number k *)
PropagateStep == pc = "propagate" /\ k' = k + 1

(* the place of cell i in the order in which propagation reads its sources *)
SourceNumber(i) == (i % width) * (fireHeight - 1) + (i \div width) - 1

(* C19 as stated: in each column the sources are processed from the lowest *)
(* row towards the top, so that the value just written is the source of    *)
(* the next iteration in the same column.                                  *)
C19_BottomRowFirst ==
    [][PropagateStep =>
          /\ (k % (fireHeight - 1) = 0) => \A i \in wr' : i \div width = fireHeight - 2
          /\ (k' < NCells /\ CellX(k') = CellX(k)) =>
                 \E i \in wr' : i \div width >= 1 /\ SourceNumber(i) = k']_vars

(* C19: within one tick propagation processes the columns from left to     *)
(* right and in each column the source rows from row 1 down to the lowest  *)
(* row; the write of source row y lands in row y-1, and a written cell is  *)
(* read as a source later in the same tick only when it lies in the next   *)
(* column to the right.                                                    *)
C19_TopRowFirst ==
    [][PropagateStep =>
          /\ (k % (fireHeight - 1) = 0) => \A i \in wr' : i \div width = 0
          /\ (k >= 1 /\ CellX(k) = CellX(k - 1)) =>
                 \A i \in wr', j \in wr : i \div width = (j \div width) + 1
          /\ wr' # {}
          /\ \A i \in wr' : (i \div width >= 1 /\ SourceNumber(i) > k)
                                => i % width = CellX(k) + 1]_vars

C19_Witness ==
    /\ pc = "propagate"
    /\ k >= 2
    /\ CellX(k - 1) = CellX(k - 2)
    /\ fireHeight >= 4
    /\ \E i \in wr : /\ fire[i] > 0
                      /\ i \div width >= 1
                      /\ i % width = CellX(k - 1) + 1

(* --------------------- propagation, three revisions -------------------- *)
(* The propagation loop of updateFire() in the three revisions of the      *)
(* program: "blended" and "embers" as above and "wave", the revision whose *)
(* destination column also drifts with int(sin(0.15*tick + 0.1*y) * 1.5).  *)
Revisions == Variants \cup {"wave"}

(* the rows of the heat field a refuel can ignite on a grid of h rows *)
IgnitedRows(v, h) ==
    IF v = "blended"
    THEN {r \in {(h - 1 - d) * 2 : d \in 0..((3 * (h - 1)) \div 4)} : r >= 0 /\ r < 2 * h}
    ELSE {Max2(Min2((h - 1 - lh) * 2 + j, 2 * h - 1), 0) :
             lh \in 1..(h - 1),
             j \in 0..((IF v = "wave" THEN 4 ELSE RefuelJitter) - 1)}

(* the cells a refuel can ignite: a fuel column of the hearth, a row of    *)
(* IgnitedRows; the blended refuel needs a fuel span of positive width     *)
IgnitedCells(v, w, h) ==
    {r * w + x : x \in {c \in hearthOf(v, w).left..(hearthOf(v, w).right - 1) :
                          v = "blended" => w >= 3},
                 r \in IgnitedRows(v, h)}

(* the program at the start of a propagation: after some ticks, on a grid  *)
(* of some size, with at most one cell lit by the preceding refuel; the    *)
(* blended update has cleared the top row                                  *)
InitPropagate ==
    /\ variant \in Revisions
    /\ \E sz \in Sizes :
         /\ width = sz[1]
         /\ height = sz[2]
         /\ fireHeight = sz[2] * 2
         /\ hearthLeft = hearthOf(variant, sz[1]).left
         /\ hearthRight = hearthOf(variant, sz[1]).right
         /\ woodMap = Slice(sz[1] * sz[2])
         /\ (variant = "blended" /\ sz[1] > 0) => sz[2] > 0
         /\ \E lit \in {{}} \cup {{c} : c \in IgnitedCells(variant, sz[1], sz[2])} :
              fire = [i \in 0..(sz[1] * sz[2] * 2 - 1) |->
                         IF i \in lit /\ (variant = "blended" => i >= sz[1])
                         THEN MaxHeat ELSE 0]
    /\ tick \in IF variant = "embers" THEN {0} ELSE 1..MaxTick
    /\ logCount = 0
    /\ logs = <<>>
    /\ pc = "propagate"
    /\ k = 0
    /\ done = <<>>
    /\ wr = {}
    /\ frames = 1
    /\ ignitions = 0
    /\ ev = "none"
    /\ genSeed = 0
    /\ audio = FALSE
    /\ apc = "off"
    /\ rumbleState = 0

NextPropagate == PropagateCell \/ PropagateEnd

PropagateSpec == InitPropagate /\ [][NextPropagate]_vars

(* propagation stays inside the heat field: no step of it panics and each  *)
(* source index and each written index is in [0, len(fire))                *)
PropagateInBounds ==
    /\ pc = "propagate" => pc' # "panic"
    /\ PropagateStep => /\ CellY(k) * width + CellX(k) \in DOMAIN fire
                        /\ wr' \subseteq DOMAIN fire

(* C20 as stated: a write from source (x, y), y >= 1, targets row y-1 and  *)
(* a column in [0, width-1] that differs from x by at most 1; propagation  *)
(* never reads or writes an index outside [0, len(fire)).                  *)
C20_JitterAtMostOne ==
    [][/\ PropagateInBounds
       /\ PropagateStep =>
             \A i \in wr' : /\ CellY(k) >= 1
                            /\ i \div width = CellY(k) - 1
                            /\ i % width \in 0..(width - 1)
                            /\ Abs((i % width) - CellX(k)) <= 1]_vars

(* C20: a write from source (x, y), y >= 1, targets row y-1 and a column   *)
(* in [0, width-1]; the column differs from x by at most 1 where the       *)
(* destination is x plus the jitter, and by at most 2 in the revision that *)
(* adds the wave drift to the jitter; propagation never reads or writes an *)
(* index outside [0, len(fire)).                                           *)
C20_JitterAndWave ==
    [][/\ PropagateInBounds
       /\ PropagateStep =>
             \A i \in wr' : /\ CellY(k) >= 1
                            /\ i \div width = CellY(k) - 1
                            /\ i % width \in 0..(width - 1)
                            /\ Abs((i % width) - CellX(k))
                                  <= IF variant = "wave" THEN 2 ELSE 1]_vars

C20_Witness ==
    /\ variant = "wave"
    /\ pc = "propagate"
    /\ k >= 1
    /\ \E i \in wr : /\ fire[i] > 0
                      /\ Abs((i % width) - CellX(k - 1)) = 2

(* the largest heat of a field, 0 for an empty one *)
MaxOf(f) == IF DOMAIN f = {} THEN 0
            ELSE CHOOSE m \in {f[i] : i \in DOMAIN f} : \A i \in DOMAIN f : f[i] <= m

(* the decays the draws of one iteration can give at source (x, y) *)
Decays(x, y) ==
    {decay(x, y, r, lick, nan) : r \in {0, 1}, lick \in BOOLEAN,
                                 nan \in IF hearthRight - hearthLeft = 0
                                         THEN ImplDefinedTerm ELSE {0}}

(* C21: for a nonzero source cell the value propagation writes is          *)
(* max(0, pixel - decay) with decay >= 0 whatever the column, the row and  *)
(* the draws; a propagated value never exceeds its source and propagation  *)
(* never raises the largest heat of the grid.                              *)
C21_PropagationNeverHeats ==
    [][(PropagateStep /\ fire[CellY(k) * width + CellX(k)] # 0) =>
          LET pixel == fire[CellY(k) * width + CellX(k)]
          IN /\ \A d \in Decays(CellX(k), CellY(k)) : d >= 0
             /\ \A i \in wr' :
                   /\ \E d \in Decays(CellX(k), CellY(k)) :
                         fire'[i] = IF pixel - d > 0 THEN pixel - d ELSE 0
                   /\ fire'[i] <= pixel
             /\ MaxOf(fire') <= MaxOf(fire)]_vars

C21_Witness ==
    /\ pc = "propagate"
    /\ k >= 1
    /\ k <= NCells
    /\ \E i \in wr : /\ fire[i] > 0
                      /\ fire[i] < fire[CellY(k - 1) * width + CellX(k - 1)]

(* --------------------------- blending compositor ----------------------- *)
(* Colours are <<r, g, b>>.  palette holds the 36 RGB entries of the       *)
(* source; init() puts black at colors[0] and palette[i] at colors[i+1].   *)
palette ==
    <<
       <<7, 7, 7>>, <<31, 7, 7>>, <<47, 15, 7>>, <<71, 15, 7>>,
       <<87, 23, 7>>, <<103, 31, 7>>, <<119, 31, 7>>, <<143, 39, 7>>,
       <<159, 47, 7>>, <<175, 63, 7>>, <<191, 71, 7>>, <<199, 71, 7>>,
       <<223, 79, 7>>, <<223, 87, 7>>, <<223, 87, 7>>, <<215, 95, 7>>,
       <<215, 95, 7>>, <<215, 103, 15>>, <<207, 111, 15>>, <<207, 119, 15>>,
       <<207, 127, 15>>, <<207, 135, 23>>, <<199, 135, 23>>, <<199, 143, 23>>,
       <<199, 151, 31>>, <<191, 159, 31>>, <<191, 159, 31>>, <<191, 167, 39>>,
       <<191, 167, 39>>, <<191, 175, 47>>, <<183, 183, 47>>, <<183, 183, 55>>,
       <<175, 63, 7>>, <<175, 63, 7>>, <<175, 63, 7>>, <<175, 63, 7>>
    >>

Black == <<0, 0, 0>>

colors(i) == IF i = 0 THEN Black ELSE palette[i]

clampColor(v) == IF v < 0 THEN 0 ELSE IF v > 255 THEN 255 ELSE v

(* blendColors: base when heat <= 0, else base*(1-alpha) + overlay*alpha   *)
(* per channel with alpha = heat/40.0 capped at 0.85 (= 34/40), truncated  *)
blendColors(base, overlay, heat) ==
    IF heat <= 0 THEN base
    ELSE LET a == IF heat > 34 THEN 34 ELSE heat
         IN [j \in 1..3 |-> clampColor((base[j] * (40 - a) + overlay[j] * a) \div 40)]

(* the two heats of displayed cell c as drawEnvironment reads them *)
GlowHeat(c, sub) ==
    IF c[2] * 2 + sub < fireHeight THEN fire[(c[2] * 2 + sub) * width + c[1]] ELSE 0

(* drawEnvironment(1, logCount) on cell c: the style it leaves on the      *)
(* screen, foreground and background; a cell without stick keeps the       *)
(* cleared screen, which drawFireBlended reads as black                    *)
Geometry(c) ==
    LET logID == woodMap[c[2] * width + c[1]]
    IN IF ~(logID >= 1 /\ logID <= logCount) THEN [fg |-> Black, bg |-> Black]
       ELSE LET avgHeat == (GlowHeat(c, 0) + GlowHeat(c, 1)) \div 2
                r == 25 + (35 * logID) \div logCount + avgHeat * 5
                g == 15 + (20 * logID) \div logCount + avgHeat * 2
                b == 10 + (10 * logID) \div logCount
                baseColor == <<clampColor(r), clampColor(g), clampColor(b)>>
                darkColor == <<clampColor(r \div 2), clampColor(g \div 2), clampColor(b \div 2)>>
                noise == (c[1] * 13 + c[2] * 37 + logID * 7) % 10
            IN IF noise > 5 THEN [fg |-> baseColor, bg |-> darkColor]
               ELSE [fg |-> darkColor, bg |-> baseColor]

(* the cells drawFireBlended does not skip *)
Blended(c) ==
    /\ (c[2] * 2 + 1) * width + c[1] < LenOf(fire)
    /\ \/ fire[(c[2] * 2) * width + c[1]] >= 4
       \/ fire[(c[2] * 2 + 1) * width + c[1]] >= 4

(* drawFireBlended on cell c: the style on the screen after it *)
Emitted(c) ==
    IF ~Blended(c) THEN Geometry(c)
    ELSE LET heat1 == fire[(c[2] * 2) * width + c[1]]
             heat2 == fire[(c[2] * 2 + 1) * width + c[1]]
         IN [fg |-> blendColors(Geometry(c).fg, colors(clamp(heat1)), heat1),
             bg |-> blendColors(Geometry(c).bg, colors(clamp(heat2)), heat2)]

(* heats of the two sub-rows of a displayed cell, as a burning fire leaves *)
(* them around a flame tip: nothing, faint, at the threshold, full         *)
HeatSamples == {0, 2, 3, 4, MaxHeat}

(* the program about to composite a frame after a tick on a grid wide      *)
(* enough to burn: the sticks of some generation, and one displayed cell   *)
(* holding sampled heats                                                   *)
InitBlend ==
    /\ variant = "blended"
    /\ genSeed \in Seeds
    /\ \E g \in ResizeTable[variant][genSeed] :
          /\ g.width >= 3
          /\ g.height >= 1
          /\ width = g.width
          /\ height = g.height
          /\ hearthLeft = g.hearthLeft
          /\ hearthRight = g.hearthRight
          /\ fireHeight = g.fireHeight
          /\ woodMap = g.woodMap
          /\ logCount = g.logCount
          /\ logs = g.logs
          /\ \E x \in 0..(g.width - 1), y \in 0..(g.height - 1) :
             \E h1 \in HeatSamples, h2 \in HeatSamples :
                fire = [i \in DOMAIN g.fire |->
                           IF i = (y * 2) * g.width + x THEN h1
                           ELSE IF i = (y * 2 + 1) * g.width + x THEN h2
                           ELSE 0]
    /\ tick = 1
    /\ pc = "composite"
    /\ k = 0
    /\ done = <<"propagate", "refuel">>
    /\ wr = {}
    /\ frames = 1
    /\ ignitions = 0
    /\ ev = "none"
    /\ audio = FALSE
    /\ apc = "off"
    /\ rumbleState = 0

NextBlend == Composite \/ Present

BlendSpec == InitBlend /\ [][NextBlend]_vars

(* a frame has been composited and not yet replaced *)
Composited == pc = "present" /\ variant = "blended"

(* what the compositor does let through: a sub-row without heat, and both  *)
(* sub-rows of a cell whose two heats are below the threshold              *)
PassThroughWhenCold ==
    Composited =>
       \A c \in Cells :
          (c[2] * 2 + 1) * width + c[1] < LenOf(fire) =>
             LET heat1 == fire[(c[2] * 2) * width + c[1]]
                 heat2 == fire[(c[2] * 2 + 1) * width + c[1]]
             IN /\ heat1 <= 0 => Emitted(c).fg = Geometry(c).fg
                /\ heat2 <= 0 => Emitted(c).bg = Geometry(c).bg
                /\ (heat1 < 4 /\ heat2 < 4) => Emitted(c) = Geometry(c)

(* C22: in the blending compositor, for every displayed cell and each of   *)
(* its two sub-rows separately, a sub-row whose heat is below 4 gets the   *)
(* geometry colour already drawn for that cell (black without geometry),   *)
(* foreground for the top sub-row and background for the bottom one,       *)
(* whatever the heat of the other sub-row.                                 *)
C22_ColdHalfPassesThrough ==
    Composited =>
       \A c \in Cells :
          (c[2] * 2 + 1) * width + c[1] < LenOf(fire) =>
             /\ fire[(c[2] * 2) * width + c[1]] < 4 => Emitted(c).fg = Geometry(c).fg
             /\ fire[(c[2] * 2 + 1) * width + c[1]] < 4 => Emitted(c).bg = Geometry(c).bg

ColdHalfBlended ==
    /\ Composited
    /\ \E c \in Cells : /\ woodMap[c[2] * width + c[1]] >= 1
                         /\ fire[(c[2] * 2) * width + c[1]] = 3
                         /\ fire[(c[2] * 2 + 1) * width + c[1]] = 4
                         /\ Emitted(c).fg # Geometry(c).fg

(* ------------------------- generation, step by step -------------------- *)
(* generateLogs() of the blended revision on grids that admit a raised     *)
(* stick (height >= 3) and more than four sticks (width >= 5): one step    *)
(* per side of a pair, then the adjustment, the sort, the ids and the      *)
(* rendering in one step.                                                  *)
GenSizes == (0..MaxGenWidth) \X (0..MaxGenHeight)

(* the number of the attempt at which the placement loop is left *)
RECURSIVE AttemptsUsed(_, _, _, _, _, _, _)
AttemptsUsed(attempt, T, seed, off, dir, w, h) ==
    LET c == Candidate(off, dir, AttemptDraw(seed, Len(T) + attempt, off, h), w, h)
    IN IF LeavesLoop(c, T, attempt, w) THEN attempt
       ELSE AttemptsUsed(attempt + 1, T, seed, off, dir, w, h)

(* offset and direction of the side that places stick number Len(T) + 1 *)
SideOffset(T, seed) == StreamOffset(seed, Len(T) \div 2)
SideDir(T) == IF Len(T) % 2 = 0 THEN 0 - 1 ELSE 1

(* the candidate of attempt j for the side about to be placed *)
SideCandidate(j) ==
    Candidate(SideOffset(logs, genSeed), SideDir(logs),
              AttemptDraw(genSeed, Len(logs) + j, SideOffset(logs, genSeed), height),
              width, height)

(* resize() has set the sizes and cleared the fields; generateLogs begins *)
InitGen ==
    /\ variant = "blended"
    /\ genSeed \in Seeds
    /\ \E sz \in GenSizes :
          /\ width = sz[1]
          /\ height = sz[2]
          /\ hearthLeft = 0
          /\ hearthRight = sz[1]
          /\ fireHeight = sz[2] * 2
          /\ fire = initFire(sz[1], sz[2] * 2)
          /\ woodMap = Slice(sz[1] * sz[2])
    /\ logs = <<>>
    /\ logCount = 0
    /\ tick = 0
    /\ pc = "place"
    /\ k = 0
    /\ done = <<>>
    /\ wr = {}
    /\ frames = 0
    /\ ignitions = 0
    /\ ev = "none"
    /\ audio = FALSE
    /\ apc = "off"
    /\ rumbleState = 0

(* one side of a pair: the attempt loop and the append; k keeps the number *)
(* of the attempt the loop was left at                                     *)
PlaceSide ==
    /\ pc = "place"
    /\ Len(logs) < numLogsOf(width)
    /\ logs' = Append(logs, WithId(Place(0, logs, genSeed, SideOffset(logs, genSeed),
                                         SideDir(logs), width, height), logs))
    /\ k' = AttemptsUsed(0, logs, genSeed, SideOffset(logs, genSeed),
                         SideDir(logs), width, height)
    /\ done' = Append(done, "side")
    /\ UNCHANGED <<variant, width, height, fireHeight, hearthLeft, hearthRight,
                   fire, woodMap, logCount, tick, pc, wr, frames, ignitions,
                   ev, genSeed, audio, apc, rumbleState>>

(* steps 2.. of generateLogs: adjust, sort by depth, number, render *)
FinishGenerate ==
    /\ pc = "place"
    /\ Len(logs) >= numLogsOf(width)
    /\ logs' = AssignIds(SortByDepth(AdjustFrom(1, logs, width, height)))
    /\ woodMap' = RasterCapsules(logs', width, height)
    /\ logCount' = Len(logs)
    /\ pc' = "select"
    /\ k' = 0
    /\ done' = <<"resize">>
    /\ UNCHANGED <<variant, width, height, fireHeight, hearthLeft, hearthRight,
                   fire, tick, wr, frames, ignitions,
                   ev, genSeed, audio, apc, rumbleState>>

NextGen == PlaceSide \/ FinishGenerate

GenSpec == InitGen /\ [][NextGen]_vars

(* the steps of GenSpec compute generateLogs and the rendering of resize() *)
GenAgrees ==
    (pc = "select" /\ done = <<"resize">>) =>
        /\ logs = generateLogsBlended(genSeed, width, height)
        /\ woodMap = Raster(variant, logs, width, height)

(* C23: after generation the order of the ids agrees with the final        *)
(* vertical placement: id(a) < id(b) implies that the final midpoint Y of  *)
(* a is not larger than that of b.                                         *)
C23_IdsFollowFinalPlacement ==
    (pc = "select" /\ done = <<"resize">>) =>
        \A a \in 1..Len(logs), b \in 1..Len(logs) :
            logs[a].id < logs[b].id => logs[a].midY <= logs[b].midY

(* the ids do follow the depth recorded when the stick was placed *)
IdsFollowRecordedDepth ==
    (pc = "select" /\ done = <<"resize">>) =>
        \A a \in 1..Len(logs), b \in 1..Len(logs) :
            logs[a].id < logs[b].id => logs[a].depth <= logs[b].depth

(* the candidate of attempt j passes the test that ends the attempt loop   *)
(* early: near a placed stick, or, for the first four sticks, central      *)
Accepted(j) ==
    IF Len(logs) < 4 THEN Abs(SideCandidate(j).midX - centerX10(0, width)) < 50
    ELSE isNear(SideCandidate(j), logs)

(* C24 as stated: each stick is placed after at most 15 attempts and one   *)
(* stick is appended per side; a candidate nearer than the proximity limit *)
(* to a placed stick is rejected, and accepted only at the 15th attempt.   *)
C24_NearRejected ==
    [][(pc = "place" /\ Len(logs') > Len(logs)) =>
          /\ Len(logs') = Len(logs) + 1
          /\ k' <= maxAttempts - 1
          /\ logs'[Len(logs')] = WithId(SideCandidate(k'), logs)
          /\ isNear(SideCandidate(k'), logs) => k' = maxAttempts - 1]_vars

(* what the placement loop does: at most 15 attempts, one stick appended  *)
(* per side; the loop ends at the first candidate that is nearer than the  *)
(* proximity limit to a placed stick (for the first four sticks: within 5  *)
(* columns of the centre), or at the 15th attempt                          *)
PlacementEndsWhenNear ==
    [][(pc = "place" /\ Len(logs') > Len(logs)) =>
          /\ Len(logs') = Len(logs) + 1
          /\ k' <= maxAttempts - 1
          /\ logs'[Len(logs')] = WithId(SideCandidate(k'), logs)
          /\ \A j \in 0..(k' - 1) : ~Accepted(j)
          /\ Accepted(k') \/ k' = maxAttempts - 1]_vars

(* the ember step of a tick has completed *)
EmberStep == pc = "ember" /\ pc' \notin {"ember", "panic"}

(* where the code puts a spark: a column of the hearth, a row from the     *)
(* doubled middle screen row downwards                                     *)
EmberInHearthFromMiddleDown ==
    [][EmberStep =>
          /\ Cardinality(wr') <= 1
          /\ \A i \in DOMAIN fire : fire'[i] # fire[i] => i \in wr'
          /\ \A i \in wr' : /\ fire'[i] = 36
                            /\ i % width \in hearthLeft..(hearthRight - 1)
                            /\ i \div width >= (height \div 2) * 2]_vars

(* C25: in every tick at most one ember cell is ignited; an ignited ember  *)
(* is set to 36, its column lies within the fuel span (between the         *)
(* leftmost and the rightmost column with fuel height > 0) and its row is  *)
(* in the mid-to-upper part of the fire grid (row index not below the      *)
(* vertical middle, row 0 at the top).                                     *)
C25_EmberInFuelSpanUpperHalf ==
    [][EmberStep =>
          /\ Cardinality(wr') <= 1
          /\ \A i \in DOMAIN fire : fire'[i] # fire[i] => i \in wr'
          /\ \A i \in wr' : /\ fire'[i] = 36
                            /\ FuelCols # {}
                            /\ i % width \in minLX..maxLX
                            /\ i \div width <= fireHeight \div 2]_vars

(* the column half of C25 alone *)
EmberInFuelSpan ==
    [][EmberStep => \A i \in wr' : FuelCols # {} /\ i % width \in minLX..maxLX]_vars

(* C26: on every grid with width >= 1 and height >= 1, the width 1 with   *)
(* an empty hearth span included, the ember step of a tick completes       *)
(* without failure: it sets exactly one in-bounds cell to 36 or changes    *)
(* nothing.                                                                *)
C26_EmberStepCompletes ==
    [][(pc = "ember" /\ width >= 1 /\ height >= 1) =>
          /\ pc' # "panic"
          /\ \/ fire' = fire
             \/ \E i \in DOMAIN fire : fire' = [fire EXCEPT ![i] = 36]]_vars

(* the same on the grids whose hearth span is not empty *)
EmberStepCompletesOnHearth ==
    [][(pc = "ember" /\ hearthRight - hearthLeft >= 1) =>
          /\ pc' # "panic"
          /\ \/ fire' = fire
             \/ \E i \in DOMAIN fire : fire' = [fire EXCEPT ![i] = 36]]_vars

(* one iteration of the refuel loop, for column k *)
RefuelStep == pc = "refuel" /\ k' = k + 1

FireRow(y) == {i \in DOMAIN fire : i \div width = y}

(* the propagation of the current tick has just completed *)
PropagationDone == pc = "refuel" /\ k = 0 /\ done = <<"propagate">>

(* C28: in the blended variant the bottom row of the heat field (row       *)
(* fireHeight-1) is 0 in every reachable state, and row fireHeight-2 is    *)
(* all zero at the end of the propagation of every tick.                   *)
C28_BottomRowCold ==
    (variant = "blended" /\ width >= 1) =>
        /\ \A i \in FireRow(fireHeight - 1) : fire[i] = 0
        /\ PropagationDone => \A i \in FireRow(fireHeight - 2) : fire[i] = 0

C28_Witness ==
    /\ variant = "blended"
    /\ PropagationDone
    /\ frames = 2
    /\ fireHeight >= 4
    /\ \E i \in FireRow(fireHeight - 3) : fire[i] > 0

(* ------------------------- ticks without refuel ------------------------ *)
(* The blended revision from the end of a refuel that lit a column, through *)
(* ticks whose refuel draws light nothing (no ignite draw succeeds).       *)
DecayTicks == 2 * MaxHeight + 1

(* the columns the refuel can light: fuel, inside the 80% span, and a      *)
(* draw that can succeed                                                   *)
Lightable == {x \in 0..(width - 1) : HasFuel(x) /\ ~OutsideSpan(x) /\ TRUE \in IgniteDraws(x)}

InitDecay ==
    /\ variant = "blended"
    /\ genSeed \in Seeds
    /\ \E g \in ResizeTable[variant][genSeed] :
          /\ width = g.width
          /\ height = g.height
          /\ hearthLeft = g.hearthLeft
          /\ hearthRight = g.hearthRight
          /\ fireHeight = g.fireHeight
          /\ woodMap = g.woodMap
          /\ logCount = g.logCount
          /\ logs = g.logs
          /\ \E x \in Lightable : \E D \in DepthDraws(getLogHeight(x)) :
                fire = [i \in DOMAIN g.fire |->
                           IF i \in {RefuelIndex(DepthRow(d), x) : d \in D}
                           THEN MaxHeat ELSE 0]
    /\ tick = 1
    /\ pc = "composite"
    /\ k = 0
    /\ done = <<"propagate", "refuel">>
    /\ wr = {}
    /\ frames = 1
    /\ ignitions = MaxIgnitions
    /\ ev = "none"
    /\ audio = FALSE
    /\ apc = "off"
    /\ rumbleState = 0

(* case <-ticker.C of the blended revision, for up to DecayTicks firings *)
TimerDecay ==
    /\ pc = "select"
    /\ UNCHANGED <<ev, genSeed, audio, apc, rumbleState>>
    /\ frames < DecayTicks
    /\ frames' = frames + 1
    /\ tick' = tick + 1
    /\ IF \E x \in 0..(width - 1) : x \notin DOMAIN fire
       THEN Panic /\ done' = <<>>
       ELSE /\ fire' = [i \in DOMAIN fire |-> IF i < width THEN 0 ELSE fire[i]]
            /\ wr' = 0..(width - 1)
            /\ pc' = "propagate"
            /\ k' = 0
            /\ done' = <<>>
            /\ UNCHANGED <<variant, width, height, fireHeight, hearthLeft,
                           hearthRight, woodMap, logCount, logs, ignitions>>

NextDecay ==
    \/ TimerDecay
    \/ PropagateCell
    \/ PropagateEnd
    \/ RefuelColumn
    \/ RefuelEnd
    \/ Composite
    \/ Present

DecaySpec == InitDecay /\ [][NextDecay]_vars

(* C29: in the blended variant heat is sustained only by refuel: after     *)
(* fireHeight consecutive ticks without a refuel write every cell of the   *)
(* heat field is 0, whatever the jitter and decay draws; the grid empties  *)
(* from the bottom upwards, at least one more row per tick.                *)
C29_EmptiesWithoutRefuel ==
    (pc = "select" /\ frames >= 1) =>
        /\ \A i \in DOMAIN fire : i \div width >= fireHeight - frames => fire[i] = 0
        /\ frames >= 1 + fireHeight => \A i \in DOMAIN fire : fire[i] = 0

C29_Witness ==
    /\ pc = "select"
    /\ frames = 1 + fireHeight
    /\ fireHeight >= 4
    /\ ignitions = MaxIgnitions
    /\ \A i \in DOMAIN fire : fire[i] = 0

(* two ticks after the refuel the heat is still in the grid *)
StillBurning ==
    /\ pc = "select"
    /\ frames = 2
    /\ \E i \in DOMAIN fire : fire[i] > 0

(* C30: in the variant with embers and clamped refuel rows propagation    *)
(* never writes the bottom row of the heat field (row fireHeight-1); that  *)
(* row is written only by refuel and embers and only with nonzero values,  *)
(* so a bottom-row cell that has become nonzero stays nonzero in every     *)
(* later state until the next resize.                                      *)
C30_BottomRowKeepsHeat ==
    [][(variant = "embers" /\ ~ResizeStep) =>
          /\ pc = "propagate" => wr' \cap FireRow(fireHeight - 1) = {}
          /\ \A i \in FireRow(fireHeight - 1) :
                /\ fire'[i] # fire[i] => (pc \in {"refuel", "ember"} /\ fire'[i] > 0)
                /\ i \in wr' => fire'[i] > 0
                /\ fire[i] # 0 => fire'[i] # 0]_vars

C30_Witness ==
    /\ variant = "embers"
    /\ frames = 2
    /\ pc = "refuel"
    /\ k = hearthLeft
    /\ done = <<"propagate">>
    /\ \E i \in FireRow(fireHeight - 1) : fire[i] > 0
    /\ \E i \in DOMAIN fire : i \div width < fireHeight - 1 /\ fire[i] > 0

====
